---- MODULE Spec2Model ----
(***************************************************************************)
(* Model of the remote-resource access layer of react-native-magento-admin *)
(* (src/app/services/api.ts and the screens that drive it): the auth       *)
(* provider (restore, login, logout, the 'logout' event listener), the     *)
(* gateway calls with their 401 handling, and the bulk product delete of   *)
(* the products screen.                                                    *)
(***************************************************************************)
EXTENDS Integers, Sequences, FiniteSets, TLC

(***************************************************************************)
(* Bounds                                                                  *)
(***************************************************************************)
MaxCalls == 2
MaxLogouts == 2
MaxLogins == 1
MaxItems == 3
MaxMedia == 2
MaxPage == 2
MaxPageSize == 20
MaxTotal == 45
MaxSearchLen == 2
MaxBuilds == 2
MaxNodes == 3
MaxFetches == 5

CallIds == 1..MaxCalls
\* The session specification has one gateway call, its source of 401s.
SessionCallIds == {1}
Skus == 1..MaxItems

Usernames == {"admin", "clerk"}

\* Tokens: 0 is the empty string of `user?.token || ''` (and the null of
\* AsyncStorage.getItem('token')), 1..MaxLogins are issued by the logins of
\* this run, and StoredToken is the token of a record persisted by an
\* earlier run.
StoredToken == MaxLogins + 1
Tokens == 0..StoredToken

(***************************************************************************)
(* Values                                                                  *)
(***************************************************************************)
NullUser == [kind |-> "null"]

MkUser(username, token) == [kind |-> "user", username |-> username, token |-> token]

\* No value under the key 'user' (getItem resolves to null).
NoItem == [json |-> "absent"]

\* JSON.stringify(userData)
JSONStringify(u) == [json |-> "object", username |-> u.username, token |-> u.token]

\* Text under 'user' that is not JSON: JSON.parse throws a SyntaxError.
InvalidJSON == [json |-> "invalid"]

\* The JSON text `null`.
JSONNull == [json |-> "null"]

\* JSON.parse(userStr) throws.
JSONParseThrows(s) == s.json = "invalid"

\* JSON.parse(userStr), when it does not throw.  An object without a token
\* is an object whose token reads as undefined (0, as for the empty token).
JSONParse(s) == IF s.json = "null" THEN NullUser ELSE MkUser(s.username, s.token)

\* What may be found under 'user' when the provider mounts: nothing, a record
\* written by handleLogin in an earlier run, or something else.
StoredValues ==
  {NoItem, InvalidJSON, JSONNull}
    \cup {JSONStringify(MkUser(u, t)) : u \in Usernames, t \in {0, StoredToken}}

\* user?.token || ''
TokenOf(u) == IF u.kind = "user" THEN u.token ELSE 0

\* Operations of the api object that a screen may call.  Every axios-based
\* operation has the same shape (one request, handleAuthError first in the
\* catch block); getProductDetails stands for them.  getStats runs getOrders,
\* getCustomers and getProducts one after the other; deleteCategory uses fetch.
AxiosOps == {"getProductDetails"}
Ops == AxiosOps \cup {"getStats", "deleteCategory"}

StagesOf(op) == IF op = "getStats" THEN 3 ELSE 1

\* HTTP outcomes of one request: a status, or -1 when no response arrives.
NoResponse == -1
\* An error raised while setting up the request: neither response nor request.
RequestNotSent == -3
Statuses == {200, 401, 500, NoResponse}

IdleCall == [pc |-> "idle", op |-> "none", token |-> 0, stage |-> 0,
             status |-> 0, outcome |-> "none", broadcast |-> FALSE,
             overlap |-> {}]

VARIABLES
  user,            \* AuthProvider state `user`
  isAuthenticated, \* AuthProvider state `isAuthenticated`
  storage,         \* AsyncStorage value under the key 'user'
  storageQ,        \* AsyncStorage operations issued and not yet settled
  validTokens,     \* tokens the remote platform still accepts
  calls,           \* gateway calls, by id
  login,           \* the handleLogin invocation in progress
  logins,          \* number of handleLogin invocations so far
  emits,           \* number of EventRegister.emit('logout')
  removals,        \* AsyncStorage.removeItem('user') issued, by origin
  navigations,     \* router.replace('/') executed by handleLogout, by origin
  route,           \* last route set by a logout or login path
  products,        \* ProductsScreen: the loaded list, media entries by sku
  selectedProducts,\* ProductsScreen: selected skus, in insertion order
  isSelectionMode, \* ProductsScreen state `isSelectionMode`
  loading,         \* ProductsScreen state `loading`
  alert,           \* last Alert.alert shown by the products screen
  bulk,            \* position of the bulk delete handler (onPress)
  reqLog,          \* delete requests issued by the bulk delete, in order
  deleted,         \* skus the remote platform has deleted
  fetchPending,    \* fetchProducts() calls awaiting api.getProducts
  listCall,        \* one call of a list operation of the api object
  compiler,        \* getProducts query construction: the caller's filters, the queries built
  categoriesScreen,\* CategoriesScreen state
  productsScreen   \* ProductsScreen paging state and its getProducts requests

authVars == <<user, isAuthenticated, storage, storageQ, validTokens, calls,
              login, logins, emits, removals, navigations, route>>

bulkVars == <<products, selectedProducts, isSelectionMode, loading, alert,
              bulk, reqLog, deleted, fetchPending>>

screenVars == <<compiler, categoriesScreen, productsScreen>>

listVars == <<listCall, screenVars>>

vars == <<authVars, bulkVars, listVars>>

(***************************************************************************)
(* Pure helpers                                                            *)
(***************************************************************************)
\* handleAuthError(error) with a final `return` in place of `throw error`.
HandleAuthErrorReturns(status) ==
  IF status = 401
    THEN [emit |-> TRUE, thrown |-> "SessionExpired"]
    ELSE [emit |-> FALSE, thrown |-> "none"]

\* handleAuthError(error): on a 401 response it emits 'logout' and throws the
\* session-expired error; every other error is rethrown as it is.
HandleAuthError(status) ==
  IF status = 401
    THEN [emit |-> TRUE, thrown |-> "SessionExpired"]
    ELSE [emit |-> FALSE, thrown |-> "AxiosError"]

\* The statements that follow handleAuthError(error) in a catch block: the
\* platform's message or the operation's fallback text when there is a
\* response, the 'No response from server' text when there is none.
CatchMessage(status) ==
  IF status = NoResponse THEN "Unreachable" ELSE "RemoteRejected"

\* The catch path of an api operation, given what the transport reported:
\* handleAuthError(error) first, and the statements after it if it returns.
\* deleteCategory uses fetch and never calls handleAuthError: a response that
\* is not ok throws 'Failed to delete category', a lost request rejects with
\* fetch's TypeError.  getStats rethrows what its inner call threw.
GatewayCatch(op, status) ==
  IF op = "deleteCategory"
    THEN [emit |-> FALSE,
          thrown |-> IF status = NoResponse THEN "TypeError"
                     ELSE "DeleteCategoryFailed"]
    ELSE LET h == HandleAuthError(status)
         IN IF h.thrown # "none"
              THEN h
              ELSE [emit |-> h.emit, thrown |-> CatchMessage(status)]

\* EventRegister.emit('logout') runs the provider's listener, which calls
\* handleLogout(); handleLogout runs up to its first await, so the removal
\* of 'user' is issued before emit returns.
LogoutRequest(origin) == [op |-> "remove", origin |-> origin, call |-> 0]

InFlight(c) == calls[c].pc \in {"storage", "sent", "answered"}

(***************************************************************************)
(* List operations: getOrders, getProducts, getCustomers, getCategories    *)
(***************************************************************************)
ListOps == {"getOrders", "getProducts", "getCustomers", "getCategories"}

Pages == 1..MaxPage
PageSizes == 1..MaxPageSize

\* response.data.total_count: a count, or undefined when the body has none.
Undefined == -1
TotalCounts == 0..MaxTotal
ReportedTotals == TotalCounts \cup {Undefined}

\* The number NaN.
NaN == -2

\* x || 0 on a number or undefined: 0 when x is undefined (or 0).
OrZero(x) == IF x = Undefined \/ x = 0 THEN 0 ELSE x

\* Floor of total / pageSize.
FloorOfQuotient(total, pageSize) ==
  IF total = Undefined THEN NaN ELSE total \div pageSize

\* Math.ceil(total / pageSize): undefined / n is NaN and Math.ceil(NaN) is
\* NaN; on a count it is the quotient rounded up.
MathCeilOfQuotient(total, pageSize) ==
  IF total = Undefined
    THEN NaN
    ELSE IF total % pageSize = 0
           THEN total \div pageSize
           ELSE (total \div pageSize) + 1

\* Strings are sequences of characters; '%' is the wildcard of 'like'.
Chars == {"a", "%"}

RECURSIVE StringsUpTo(_)
StringsUpTo(n) ==
  IF n = 0
    THEN {<< >>}
    ELSE LET shorter == StringsUpTo(n - 1)
         IN shorter \cup {Append(t, ch) : t \in shorter, ch \in Chars}

\* ProductFilters.status: 1, 2, or 0 for a status that is undefined or null.
NoStatus == 0
StatusInputs == {NoStatus, 1, 2}

\* The `filters` argument of getProducts: undefined, or an object whose
\* status and search may each be missing.
NoFilters == [given |-> FALSE]
FilterInputs ==
  {NoFilters}
    \cup [given : {TRUE}, status : StatusInputs, hasSearch : {FALSE},
          search : {<< >>}]
    \cup [given : {TRUE}, status : StatusInputs, hasSearch : {TRUE},
          search : StringsUpTo(MaxSearchLen)]

\* if (filters.status): the status is neither undefined, null nor 0.
StatusGiven(filters) == filters.given /\ filters.status # NoStatus

\* if (filters.search): the string is present and not empty.
SearchGiven(filters) ==
  filters.given /\ filters.hasSearch /\ filters.search # << >>

StatusFilter(status) ==
  [field |-> "status", value |-> [num |-> status], conditionType |-> "eq"]

\* `%${filters.search}%` without the closing wildcard.
LikeValuePrefixOnly(search) == <<"%">> \o search

\* `%${filters.search}%`
LikeValue(search) == <<"%">> \o search \o <<"%">>

LikeFilter(field, search) ==
  [field |-> field, value |-> [str |-> LikeValue(search)],
   conditionType |-> "like"]

\* The fields searched, in the order their predicates are pushed.
SearchFields == <<"name", "sku", "description", "eancode">>

\* searchCriteria.filterGroups ? 1 : 0 replaced by 0.
SearchGroupIndexZero(hasGroups) == 0

\* const index = searchCriteria.filterGroups ? 1 : 0
SearchGroupIndex(hasGroups) == IF hasGroups THEN 1 ELSE 0

\* The searchCriteria of a list request.  getProducts adds filter groups,
\* statement by statement as the code does: the status group replaces
\* filterGroups, the search pushes an empty group and then pushes its four
\* predicates into filterGroups[index].
BuildSearchCriteria(op, page, pageSize, filters) ==
  LET base == [currentPage |-> page, pageSize |-> pageSize,
               sortField |-> IF op = "getCategories" THEN "position"
                             ELSE "created_at",
               sortDirection |-> IF op = "getCategories" THEN "ASC" ELSE "DESC",
               hasGroups |-> FALSE, filterGroups |-> << >>]
      withStatus ==
        IF op = "getProducts" /\ StatusGiven(filters)
          THEN [base EXCEPT !.hasGroups = TRUE,
                            !.filterGroups = << <<StatusFilter(filters.status)>> >>]
          ELSE base
      index == SearchGroupIndex(withStatus.hasGroups)
      pushed == Append(withStatus.filterGroups, << >>)
      Push(groups, k) ==
        [groups EXCEPT ![index + 1] =
           Append(@, LikeFilter(SearchFields[k], filters.search))]
  IN IF op = "getProducts" /\ SearchGiven(filters)
       THEN [withStatus EXCEPT
               !.hasGroups = TRUE,
               !.filterGroups = Push(Push(Push(Push(pushed, 1), 2), 3), 4)]
       ELSE withStatus

\* The object a list operation returns for a 2xx response.
ListResult(op, page, pageSize, total) ==
  IF op = "getCategories"
    THEN [total_count |-> OrZero(total), current_page |-> page,
          total_pages |-> MathCeilOfQuotient(OrZero(total), pageSize)]
    ELSE [total_count |-> total, current_page |-> page,
          total_pages |-> MathCeilOfQuotient(total, pageSize)]

NoResult == [total_count |-> 0, current_page |-> 0, total_pages |-> 0]

IdleList ==
  [pc |-> "idle", op |-> "none", page |-> 0, pageSize |-> 0,
   filters |-> NoFilters, criteria |-> BuildSearchCriteria("none", 0, 0, NoFilters),
   token |-> 0, status |-> 0, total |-> 0, result |-> NoResult,
   outcome |-> "none"]

(***************************************************************************)
(* CategoriesScreen: the loaded tree and its search filter                  *)
(***************************************************************************)
\* Category names and search texts: strings with upper and lower case.
CategoryNames == {<<"a">>, <<"A", "b">>, <<"B">>}
Queries == {<< >>, <<"a">>, <<"a", "B">>, <<"b", "b">>}

\* total_count of a categories response: missing, or enough for two pages.
CategoryTotals == {Undefined, 21}

\* A loaded tree: categories 1..n, each with a name and a parent of smaller
\* id (0 for an entry of the `categories` array itself); children_data of a
\* category are the categories whose parent it is.
Trees ==
  UNION {[parent : {p \in [1..n -> 0..MaxNodes] : \A c \in 1..n : p[c] < c},
          name : [1..n -> CategoryNames]] : n \in 0..MaxNodes}

NoCategories == [parent |-> << >>, name |-> << >>]

CategoryIds(tree) == DOMAIN tree.parent

\* cat.children_data
ChildrenData(tree, cat) == {c \in CategoryIds(tree) : tree.parent[c] = cat}

\* The entries of the `categories` array.
TopLevel(tree) == ChildrenData(tree, 0)

\* String.prototype.toLowerCase on the characters in use.
LowerChar(ch) ==
  CASE ch = "A" -> "a"
    [] ch = "B" -> "b"
    [] OTHER -> ch

ToLowerCase(str) == [k \in DOMAIN str |-> LowerChar(str[k])]

\* String.prototype.includes: part occurs in str at some offset.
Includes(str, part) ==
  \E off \in 0..Len(str) :
    /\ off + Len(part) <= Len(str)
    /\ SubSeq(str, off + 1, off + Len(part)) = part

\* matchesSearch looking at the category and its children only.
MatchesSearchOneLevel(tree, cat, searchLower) ==
  \/ Includes(ToLowerCase(tree.name[cat]), searchLower)
  \/ \E child \in ChildrenData(tree, cat) :
       Includes(ToLowerCase(tree.name[child]), searchLower)

\* matchesSearch(cat): the name matches, or some child does (recursively).
RECURSIVE MatchesSearch(_, _, _)
MatchesSearch(tree, cat, searchLower) ==
  LET matches == Includes(ToLowerCase(tree.name[cat]), searchLower)
  IN matches \/ \E child \in ChildrenData(tree, cat) :
                  MatchesSearch(tree, child, searchLower)

\* filteredCategories: the entries of `categories` that pass the filter;
\* each keeps its children_data as loaded.
FilteredCategories(tree, searchQuery) ==
  {cat \in TopLevel(tree) : MatchesSearch(tree, cat, ToLowerCase(searchQuery))}

\* The categories renderCategoryItem draws for an item: the item, and the
\* items of its children when it is expanded.
RECURSIVE RenderedUnder(_, _, _)
RenderedUnder(tree, item, expanded) ==
  {item} \cup
    (IF item \in expanded
       THEN UNION {RenderedUnder(tree, child, expanded) :
                     child \in ChildrenData(tree, item)}
       ELSE {})

\* The screen at mount: the spinner is shown and fetchCategories() awaits
\* api.getCategories for page 1.
MountedCategoriesScreen ==
  [categories |-> NoCategories, loading |-> TRUE, searchQuery |-> << >>,
   expandedCategories |-> {}, currentPage |-> 1, totalPages |-> 1,
   totalCount |-> 0, alert |-> "none"]

\* The screen is not shown.
NoCategoriesScreen == [MountedCategoriesScreen EXCEPT !.loading = FALSE]

(***************************************************************************)
(* ProductsScreen: paging, filter, search and the fetches they start        *)
(***************************************************************************)
\* Search texts typed into the products screen.
SearchTexts == {<< >>, <<"a">>}

\* total_count of a products response: enough for no page, two pages,
\* three pages of 20.
ProductTotals == {0, 21, 45}

\* The pages the page list can offer.
PageItems == 1..MathCeilOfQuotient(45, 20)

\* A fetchProducts() call awaiting api.getProducts: the arguments its
\* closure read from the render that created it.
FetchOf(id, page, status, search) ==
  [id |-> id, page |-> page, status |-> status, search |-> search]

NoFetch == FetchOf(0, 0, NoStatus, << >>)

\* The screen at mount: page 1 of 1, no filter, no search text, and the
\* three effects have each called fetchProducts().
MountedProductsScreen ==
  [currentPage |-> 1, totalPages |-> 1, filterStatus |-> NoStatus,
   searchQuery |-> << >>,
   fetches |-> <<FetchOf(1, 1, NoStatus, << >>), FetchOf(2, 1, NoStatus, << >>),
                 FetchOf(3, 1, NoStatus, << >>)>>,
   issued |-> 3, shown |-> NoFetch, arrived |-> NoFetch, arrivedPages |-> 0,
   failed |-> FALSE]

\* The screen is not shown.
NoProductsScreen ==
  [MountedProductsScreen EXCEPT !.fetches = << >>, !.issued = 0]

\* The sequence without its i-th element.
RemoveAt(seq, i) == SubSeq(seq, 1, i - 1) \o SubSeq(seq, i + 1, Len(seq))

(***************************************************************************)
(* getProducts up to its request: the query and the caller's filters        *)
(***************************************************************************)
\* The two objects the statements before the request can reach, after they
\* ran: the local searchCriteria and the caller's filters object.
\* CompileQuery with the wildcards written into the caller's filters.search.
CompileQueryWrapsInPlace(page, pageSize, filters) ==
  [searchCriteria |-> BuildSearchCriteria("getProducts", page, pageSize, filters),
   filters |-> IF SearchGiven(filters)
                 THEN [filters EXCEPT !.search = LikeValue(@)]
                 ELSE filters]

\* No statement assigns to filters or to a property of it: the status is
\* copied as a number and the search text into a new template string.
CompileQuery(page, pageSize, filters) ==
  [searchCriteria |-> BuildSearchCriteria("getProducts", page, pageSize, filters),
   filters |-> filters]

\* No query has been built.
IdleCompiler ==
  [page |-> 0, pageSize |-> 0, given |-> NoFilters, filters |-> NoFilters,
   queries |-> << >>]

(***************************************************************************)
(* Initial state: the provider has mounted, the 'logout' listener is       *)
(* registered and checkAuthState() waits for getItem('user'); the products *)
(* screen is not shown.                                                    *)
(***************************************************************************)
InitAuth ==
  /\ user = NullUser
  /\ isAuthenticated = FALSE
  /\ \E u \in Usernames :
       storage \in {NoItem, JSONStringify(MkUser(u, StoredToken))}
  /\ storageQ = << [op |-> "get", origin |-> "restore", call |-> 0] >>
  /\ validTokens \in {{}, {StoredToken}}
  /\ calls = [c \in CallIds |-> IdleCall]
  /\ login = [pc |-> "idle", username |-> "", status |-> 0, token |-> 0,
              result |-> "none"]
  /\ logins = 0
  /\ emits = 0
  /\ removals = [event |-> 0, explicit |-> 0]
  /\ navigations = [event |-> 0, explicit |-> 0]
  /\ route = "app"
  /\ products = [s \in 1..MaxItems |-> [known |-> FALSE, media |-> << >>]]
  /\ selectedProducts = << >>
  /\ isSelectionMode = FALSE
  /\ loading = FALSE
  /\ alert = "none"
  /\ bulk = [pc |-> "idle", items |-> << >>,
             list |-> [s \in 1..MaxItems |-> [known |-> FALSE, media |-> << >>]],
             i |-> 0, m |-> 0, token |-> 0, thrown |-> FALSE]
  /\ reqLog = << >>
  /\ deleted = {}
  /\ fetchPending = 0
  /\ listCall = IdleList
  /\ compiler = IdleCompiler
  /\ categoriesScreen = NoCategoriesScreen
  /\ productsScreen = NoProductsScreen

\* The same, with every kind of value under 'user'.
InitSession ==
  /\ user = NullUser
  /\ isAuthenticated = FALSE
  /\ storage \in StoredValues
  /\ storageQ = << [op |-> "get", origin |-> "restore", call |-> 0] >>
  /\ validTokens \in {{}, {StoredToken}}
  /\ calls = [c \in CallIds |-> IdleCall]
  /\ login = [pc |-> "idle", username |-> "", status |-> 0, token |-> 0,
              result |-> "none"]
  /\ logins = 0
  /\ emits = 0
  /\ removals = [event |-> 0, explicit |-> 0]
  /\ navigations = [event |-> 0, explicit |-> 0]
  /\ route = "app"
  /\ products = [s \in 1..MaxItems |-> [known |-> FALSE, media |-> << >>]]
  /\ selectedProducts = << >>
  /\ isSelectionMode = FALSE
  /\ loading = FALSE
  /\ alert = "none"
  /\ bulk = [pc |-> "idle", items |-> << >>,
             list |-> [s \in 1..MaxItems |-> [known |-> FALSE, media |-> << >>]],
             i |-> 0, m |-> 0, token |-> 0, thrown |-> FALSE]
  /\ reqLog = << >>
  /\ deleted = {}
  /\ fetchPending = 0
  /\ listCall = IdleList
  /\ compiler = IdleCompiler
  /\ categoriesScreen = NoCategoriesScreen
  /\ productsScreen = NoProductsScreen

(***************************************************************************)
(* Gateway calls                                                           *)
(***************************************************************************)
\* A screen calls api.<op>(user?.token || '', ...): the request is sent.
IssueCall(c, op) ==
  /\ calls[c].pc = "idle"
  /\ op \in Ops \ {"deleteCategory"}
  /\ calls' = [calls EXCEPT ![c] =
       [IdleCall EXCEPT !.pc = "sent", !.op = op, !.token = TokenOf(user),
                        !.stage = 1,
                        !.overlap = {d \in CallIds : InFlight(d)}]]
  /\ UNCHANGED <<listVars, bulkVars, user, isAuthenticated, storage, storageQ, validTokens,
                 login, logins, emits, removals, navigations, route>>

\* api.deleteCategory(id): first awaits AsyncStorage.getItem('token').
IssueDeleteCategory(c) ==
  /\ calls[c].pc = "idle"
  /\ calls' = [calls EXCEPT ![c] =
       [IdleCall EXCEPT !.pc = "storage", !.op = "deleteCategory",
                        !.stage = 1,
                        !.overlap = {d \in CallIds : InFlight(d)}]]
  /\ storageQ' = Append(storageQ, [op |-> "getToken", origin |-> "call", call |-> c])
  /\ UNCHANGED <<listVars, bulkVars, user, isAuthenticated, storage, validTokens,
                 login, logins, emits, removals, navigations, route>>

\* The remote platform answers a request: 401 when it does not accept the
\* bearer token, otherwise success or another failure; the request or its
\* response may also be lost.
ServerAnswers(token) ==
  IF token \in validTokens THEN {200, 500, NoResponse} ELSE {401, NoResponse}

ServerProcess(c) ==
  /\ calls[c].pc = "sent"
  /\ \E st \in ServerAnswers(calls[c].token) :
       calls' = [calls EXCEPT ![c].pc = "answered", ![c].status = st]
  /\ UNCHANGED <<listVars, bulkVars, user, isAuthenticated, storage, storageQ, validTokens,
                 login, logins, emits, removals, navigations, route>>

\* The awaited request settles in the caller.
Deliver(c) ==
  /\ calls[c].pc = "answered"
  /\ LET k == calls[c]
         r == GatewayCatch(k.op, k.status)
     IN IF k.status = 200
          THEN /\ calls' = [calls EXCEPT ![c] =
                    IF k.stage < StagesOf(k.op)
                      THEN [k EXCEPT !.pc = "sent", !.stage = k.stage + 1,
                                     !.status = 0]
                      ELSE [k EXCEPT !.pc = "done", !.outcome = "ok"]]
               /\ UNCHANGED <<storageQ, emits, removals>>
          ELSE /\ calls' = [calls EXCEPT ![c] =
                    [k EXCEPT !.pc = "done", !.outcome = r.thrown,
                              !.broadcast = r.emit]]
               /\ IF r.emit
                    THEN /\ emits' = emits + 1
                         /\ storageQ' = Append(storageQ, LogoutRequest("event"))
                         /\ removals' = [removals EXCEPT !.event = @ + 1]
                    ELSE UNCHANGED <<storageQ, emits, removals>>
  /\ UNCHANGED <<listVars, bulkVars, user, isAuthenticated, storage, validTokens,
                 login, logins, navigations, route>>

\* The platform stops accepting a token (expiry or revocation).
Expire(t) ==
  /\ t \in validTokens
  /\ validTokens' = validTokens \ {t}
  /\ UNCHANGED <<listVars, bulkVars, user, isAuthenticated, storage, storageQ, calls,
                 login, logins, emits, removals, navigations, route>>

(***************************************************************************)
(* Auth provider: login, logout, and the settling of storage operations    *)
(***************************************************************************)
\* LoginScreen.handleLogin -> AuthProvider.handleLogin -> api.login: the
\* token request is posted.
Login(u) ==
  /\ login.pc = "idle"
  /\ logins < MaxLogins
  /\ logins' = logins + 1
  /\ login' = [pc |-> "posting", username |-> u, status |-> 0, token |-> 0,
               result |-> "none"]
  /\ UNCHANGED <<listVars, bulkVars, user, isAuthenticated, storage, storageQ, validTokens, calls,
                 emits, removals, navigations, route>>

\* The platform answers the token request: a fresh token, an empty body,
\* a rejection, or nothing.
LoginServer ==
  /\ login.pc = "posting"
  /\ \/ /\ login' = [login EXCEPT !.pc = "answered", !.status = 200,
                                  !.token = logins]
        /\ validTokens' = validTokens \cup {logins}
     \/ /\ \E st \in {200, 401, NoResponse} :
             login' = [login EXCEPT !.pc = "answered", !.status = st, !.token = 0]
        /\ UNCHANGED validTokens
  /\ UNCHANGED <<listVars, bulkVars, user, isAuthenticated, storage, storageQ, calls, logins,
                 emits, removals, navigations, route>>

\* The message of the Error api.login throws.  An empty body makes the try
\* block throw 'No token received from server', which the catch block of
\* api.login replaces, having neither error.response nor error.request.
ApiLoginError(status) ==
  CASE status = NoResponse ->
         "No response from server. Please check your internet connection."
    [] status = 200 -> "An error occurred while trying to log in."
    [] OTHER -> "Invalid credentials"

\* The rejection of AsyncStorage.setItem, rethrown by handleLogin.
StorageError == "AsyncStorage error"

\* api.login settles in handleLogin: with a token, setItem('user', ...) is
\* issued; otherwise the error is rethrown to the login screen.
LoginDeliver ==
  /\ login.pc = "answered"
  /\ IF login.status = 200 /\ login.token # 0
       THEN /\ login' = [login EXCEPT !.pc = "persisting"]
            /\ storageQ' = Append(storageQ, [op |-> "set", origin |-> "login", call |-> 0])
       ELSE /\ login' = [login EXCEPT !.pc = "idle",
                                      !.result = ApiLoginError(login.status)]
            /\ UNCHANGED storageQ
  /\ UNCHANGED <<listVars, bulkVars, user, isAuthenticated, storage, validTokens, calls, logins,
                 emits, removals, navigations, route>>

\* DashboardScreen.handleLogout: await logout(), i.e. AuthProvider.handleLogout,
\* which issues removeItem('user') and suspends.
ExplicitLogout ==
  /\ removals.explicit < MaxLogouts
  /\ removals' = [removals EXCEPT !.explicit = @ + 1]
  /\ storageQ' = Append(storageQ, LogoutRequest("explicit"))
  /\ UNCHANGED <<listVars, bulkVars, user, isAuthenticated, storage, validTokens, calls, login,
                 logins, emits, navigations, route>>

\* What the continuation of an awaited storage operation does, given that
\* the operation succeeded (ok) or rejected.
\* checkAuthState after getItem('user').
AfterGet(ok) ==
  /\ IF ok /\ storage # NoItem /\ ~JSONParseThrows(storage)
       THEN /\ user' = JSONParse(storage)
            /\ isAuthenticated' = TRUE
       ELSE UNCHANGED <<user, isAuthenticated>>
  /\ UNCHANGED <<storage, calls, login, navigations, route>>

\* AfterSet with setUser and setIsAuthenticated placed before the await.
AfterSetBeforePersist(ok) ==
  LET userData == MkUser(login.username, login.token)
  IN /\ user' = userData
     /\ isAuthenticated' = TRUE
     /\ IF ok
          THEN /\ storage' = JSONStringify(userData)
               /\ login' = [login EXCEPT !.pc = "idle", !.result = "ok"]
               /\ route' = "/dashboard"
               /\ UNCHANGED <<calls, navigations>>
          ELSE /\ login' = [login EXCEPT !.pc = "idle", !.result = StorageError]
               /\ UNCHANGED <<storage, calls, navigations, route>>

\* AfterSet with the record of the previous session left under 'user'.
AfterSetKeepsOldRecord(ok) ==
  LET userData == MkUser(login.username, login.token)
  IN IF ok
       THEN /\ user' = userData
            /\ isAuthenticated' = TRUE
            /\ login' = [login EXCEPT !.pc = "idle", !.result = "ok"]
            /\ route' = "/dashboard"
            /\ UNCHANGED <<storage, calls, navigations>>
       ELSE /\ login' = [login EXCEPT !.pc = "idle", !.result = StorageError]
            /\ UNCHANGED <<user, isAuthenticated, storage, calls, navigations, route>>

\* handleLogin after setItem('user', JSON.stringify(userData)); on success
\* the login screen then replaces the route with '/dashboard'.
AfterSet(ok) ==
  LET userData == MkUser(login.username, login.token)
  IN IF ok
       THEN /\ storage' = JSONStringify(userData)
            /\ user' = userData
            /\ isAuthenticated' = TRUE
            /\ login' = [login EXCEPT !.pc = "idle", !.result = "ok"]
            /\ route' = "/dashboard"
            /\ UNCHANGED <<calls, navigations>>
       ELSE /\ login' = [login EXCEPT !.pc = "idle", !.result = StorageError]
            /\ UNCHANGED <<user, isAuthenticated, storage, calls, navigations, route>>

\* handleLogout after removeItem('user'): on success the session is cleared
\* and the route replaced with '/'; a rejection is caught and logged.  The
\* dashboard's caller then replaces the route with '/login' in both cases.
AfterRemove(ok, origin) ==
  /\ IF ok
       THEN /\ storage' = NoItem
            /\ user' = NullUser
            /\ isAuthenticated' = FALSE
            /\ navigations' = [navigations EXCEPT ![origin] = @ + 1]
       ELSE UNCHANGED <<storage, user, isAuthenticated, navigations>>
  /\ route' = IF origin = "explicit" THEN "/login"
              ELSE IF ok THEN "/" ELSE route
  /\ UNCHANGED <<calls, login>>

\* api.deleteCategory after getItem('token'): nothing is ever stored under
\* 'token', so the request goes out with the null token; a rejection fails
\* the call before any request.
AfterGetToken(ok, c) ==
  /\ calls' = [calls EXCEPT ![c] =
       IF ok THEN [@ EXCEPT !.pc = "sent", !.token = 0]
             ELSE [@ EXCEPT !.pc = "done", !.outcome = "StorageError"]]
  /\ UNCHANGED <<user, isAuthenticated, storage, login, navigations, route>>

\* The oldest pending AsyncStorage operation settles and its awaiter resumes.
StorageStep ==
  /\ storageQ # << >>
  /\ storageQ' = Tail(storageQ)
  /\ \E ok \in BOOLEAN :
       LET h == Head(storageQ)
       IN CASE h.op = "get"      -> AfterGet(ok)
            [] h.op = "set"      -> AfterSet(ok)
            [] h.op = "remove"   -> AfterRemove(ok, h.origin)
            [] h.op = "getToken" -> AfterGetToken(ok, h.call)
  /\ UNCHANGED <<listVars, bulkVars, validTokens, logins, emits, removals>>


(***************************************************************************)
(* Products screen: bulk delete of the selected products                   *)
(***************************************************************************)
\* A product of the loaded list: `known` is false when products.find() finds
\* nothing for the sku or the product carries no media_gallery_entries.
NoProduct == [known |-> FALSE, media |-> << >>]

MediaLists == {[k \in 1..n |-> k] : n \in 0..MaxMedia}

ProductEntries == {NoProduct} \cup {[known |-> TRUE, media |-> ms] : ms \in MediaLists}

\* Sequences of distinct skus: the iteration order of a Set.
Selections ==
  {sel \in UNION {[1..n -> Skus] : n \in 1..MaxItems} :
     \A a, b \in DOMAIN sel : a # b => sel[a] # sel[b]}

\* The handler is a closure over the render's `selectedProducts`, `products`
\* and `user`: items, list and token are what that render held.
IdleBulk == [pc |-> "idle", items |-> << >>, list |-> [s \in Skus |-> NoProduct],
             i |-> 0, m |-> 0, token |-> 0, thrown |-> FALSE]

\* The request the loop issues when it stands at item i with m media entries
\* of that item already deleted: the next deleteProductImage of the item,
\* or, after the last one, its deleteProduct.
\* RequestAt with the media loop ending one entry early.
RequestAtSkipsLastImage(items, list, i, m) ==
  LET sku == items[i]
      p == list[sku]
  IN IF p.known /\ m + 1 < Len(p.media)
       THEN [kind |-> "image", sku |-> sku, image |-> p.media[m + 1], status |-> 0]
       ELSE [kind |-> "product", sku |-> sku, image |-> 0, status |-> 0]

RequestAt(items, list, i, m) ==
  LET sku == items[i]
      p == list[sku]
  IN IF p.known /\ m < Len(p.media)
       THEN [kind |-> "image", sku |-> sku, image |-> p.media[m + 1], status |-> 0]
       ELSE [kind |-> "product", sku |-> sku, image |-> 0, status |-> 0]

\* The screen is shown with a session restored from storage, a loaded list
\* and a non-empty selection; a fetchProducts() may still be in flight.
\* The handler reads the list only at the selected skus: the entries of the
\* other skus start as NoProduct.
InitBulk ==
  /\ user = MkUser("admin", StoredToken)
  /\ storage = JSONStringify(user)
  /\ isAuthenticated = TRUE
  /\ storageQ = << >>
  /\ validTokens = {StoredToken}
  /\ calls = [c \in CallIds |-> IdleCall]
  /\ login = [pc |-> "idle", username |-> "", status |-> 0, token |-> 0,
              result |-> "none"]
  /\ logins = 0
  /\ emits = 0
  /\ removals = [event |-> 0, explicit |-> 0]
  /\ navigations = [event |-> 0, explicit |-> 0]
  /\ route = "app"
  /\ selectedProducts \in Selections
  /\ products \in [Skus -> ProductEntries]
  /\ \A s \in Skus :
       (\A k \in DOMAIN selectedProducts : selectedProducts[k] # s)
         => products[s] = NoProduct
  /\ isSelectionMode = TRUE
  /\ fetchPending \in {0, 1}
  /\ listCall = IdleList
  /\ compiler = IdleCompiler
  /\ categoriesScreen = NoCategoriesScreen
  /\ productsScreen = NoProductsScreen
  /\ loading = (fetchPending > 0)
  /\ alert = "none"
  /\ bulk = IdleBulk
  /\ reqLog = << >>
  /\ deleted = {}

\* StartBulk with the first request of every selected item issued at once,
\* as a loop without `await` would.
StartBulkWithoutAwait ==
  /\ bulk.pc = "idle"
  /\ selectedProducts # << >>
  /\ loading' = TRUE
  /\ alert' = "none"
  /\ bulk' = [pc |-> "await", items |-> selectedProducts, list |-> products,
              i |-> 1, m |-> 0, token |-> TokenOf(user), thrown |-> FALSE]
  /\ reqLog' = reqLog \o [k \in 1..Len(selectedProducts) |->
                            RequestAt(selectedProducts, products, k, 0)]
  /\ UNCHANGED <<listVars, authVars, products, selectedProducts, isSelectionMode,
                 deleted, fetchPending>>

\* 'Delete' is pressed in the confirmation: setLoading(true) and the loop
\* issues its first request.
StartBulk ==
  /\ bulk.pc = "idle"
  /\ selectedProducts # << >>
  /\ loading' = TRUE
  /\ alert' = "none"
  /\ bulk' = [pc |-> "await", items |-> selectedProducts, list |-> products,
              i |-> 1, m |-> 0, token |-> TokenOf(user), thrown |-> FALSE]
  /\ reqLog' = Append(reqLog, RequestAt(selectedProducts, products, 1, 0))
  /\ UNCHANGED <<listVars, authVars, products, selectedProducts, isSelectionMode,
                 deleted, fetchPending>>

\* The awaited delete request settles with status st and the loop goes on:
\* on success to the next request, or past the last item to the success
\* path (selection cleared, fetchProducts() started, 'Success' alert); on
\* failure the api call throws, which leaves the loop for the catch block.
\* In both cases `finally` clears the loading flag when the handler ends.
BulkSettle(st) ==
  /\ bulk.pc = "await"
  /\ st \in ServerAnswers(bulk.token)
  /\ LET n == Len(reqLog)
         req == reqLog[n]
         log == [reqLog EXCEPT ![n].status = st]
         r == HandleAuthError(st)
         i2 == IF req.kind = "product" THEN bulk.i + 1 ELSE bulk.i
         m2 == IF req.kind = "product" THEN 0 ELSE bulk.m + 1
     IN IF st = 200
          THEN /\ deleted' = IF req.kind = "product"
                               THEN deleted \cup {req.sku} ELSE deleted
               /\ IF i2 <= Len(bulk.items)
                    THEN /\ bulk' = [bulk EXCEPT !.i = i2, !.m = m2]
                         /\ reqLog' = Append(log, RequestAt(bulk.items, bulk.list, i2, m2))
                         /\ UNCHANGED <<selectedProducts, isSelectionMode,
                                        loading, alert, fetchPending>>
                    ELSE /\ bulk' = [bulk EXCEPT !.pc = "done", !.i = i2, !.m = m2]
                         /\ reqLog' = log
                         /\ selectedProducts' = << >>
                         /\ isSelectionMode' = FALSE
                         /\ fetchPending' = fetchPending + 1
                         /\ alert' = "Success"
                         /\ loading' = FALSE
               /\ UNCHANGED <<emits, storageQ, removals>>
          ELSE /\ bulk' = [bulk EXCEPT !.pc = "done", !.thrown = TRUE]
               /\ reqLog' = log
               /\ alert' = "Error"
               /\ loading' = FALSE
               /\ IF r.emit
                    THEN /\ emits' = emits + 1
                         /\ storageQ' = Append(storageQ, LogoutRequest("event"))
                         /\ removals' = [removals EXCEPT !.event = @ + 1]
                    ELSE UNCHANGED <<emits, storageQ, removals>>
               /\ UNCHANGED <<selectedProducts, isSelectionMode, deleted,
                              fetchPending>>
  /\ UNCHANGED <<listVars, user, isAuthenticated, storage, validTokens, calls, login,
                 logins, navigations, route, products>>

\* The api.getProducts of a fetchProducts() settles: on success the list is
\* replaced by what the platform holds; `finally` clears the loading flag.
FetchSettle(ok) ==
  /\ fetchPending > 0
  /\ fetchPending' = fetchPending - 1
  /\ IF ok
       THEN /\ products' = [s \in Skus |-> IF s \in deleted THEN NoProduct
                                            ELSE products[s]]
            /\ UNCHANGED alert
       ELSE /\ alert' = "Error"
            /\ UNCHANGED products
  /\ loading' = FALSE
  /\ UNCHANGED <<listVars, authVars, selectedProducts, isSelectionMode, bulk, reqLog,
                 deleted>>

(***************************************************************************)
(* A list operation called by a screen                                     *)
(***************************************************************************)
\* A screen calls api.<op>(user?.token || '', page, pageSize[, filters]):
\* the search criteria are built and the request is sent.
ListRequest ==
  /\ listCall.pc = "idle"
  /\ \E op \in ListOps, page \in Pages, pageSize \in PageSizes,
        filters \in FilterInputs :
       /\ (op # "getProducts") => (filters = NoFilters)
       /\ listCall' = [IdleList EXCEPT
            !.pc = "sent", !.op = op, !.page = page, !.pageSize = pageSize,
            !.filters = filters,
            !.criteria = BuildSearchCriteria(op, page, pageSize, filters),
            !.token = TokenOf(user)]
  /\ UNCHANGED <<authVars, bulkVars, screenVars>>

\* The request settles: a 2xx response carries total_count (or not) and the
\* operation returns its result; anything else goes through the catch block.
ListSettle ==
  /\ listCall.pc = "sent"
  /\ \E st \in ServerAnswers(listCall.token) :
       IF st = 200
         THEN /\ \E total \in ReportedTotals :
                   listCall' = [listCall EXCEPT
                     !.pc = "done", !.status = st, !.total = total,
                     !.result = ListResult(listCall.op, listCall.page,
                                           listCall.pageSize, total),
                     !.outcome = "ok"]
              /\ UNCHANGED <<storageQ, emits, removals>>
         ELSE LET r == GatewayCatch(listCall.op, st)
              IN /\ listCall' = [listCall EXCEPT
                      !.pc = "done", !.status = st, !.outcome = r.thrown]
                 /\ IF r.emit
                      THEN /\ emits' = emits + 1
                           /\ storageQ' = Append(storageQ, LogoutRequest("event"))
                           /\ removals' = [removals EXCEPT !.event = @ + 1]
                      ELSE UNCHANGED <<storageQ, emits, removals>>
  /\ UNCHANGED <<screenVars, bulkVars, user, isAuthenticated, storage,
                 validTokens, calls, login, logins, navigations, route>>

(***************************************************************************)
(* Query construction called repeatedly with one filters object            *)
(***************************************************************************)
\* A caller holds a filters object and is about to call getProducts.
InitCompile ==
  /\ user = NullUser
  /\ isAuthenticated = FALSE
  /\ storage = NoItem
  /\ storageQ = << >>
  /\ validTokens = {}
  /\ calls = [c \in CallIds |-> IdleCall]
  /\ login = [pc |-> "idle", username |-> "", status |-> 0, token |-> 0,
              result |-> "none"]
  /\ logins = 0
  /\ emits = 0
  /\ removals = [event |-> 0, explicit |-> 0]
  /\ navigations = [event |-> 0, explicit |-> 0]
  /\ route = "app"
  /\ products = [s \in Skus |-> NoProduct]
  /\ selectedProducts = << >>
  /\ isSelectionMode = FALSE
  /\ loading = FALSE
  /\ alert = "none"
  /\ bulk = IdleBulk
  /\ reqLog = << >>
  /\ deleted = {}
  /\ fetchPending = 0
  /\ listCall = IdleList
  /\ \E page \in Pages, pageSize \in PageSizes, filters \in FilterInputs :
       compiler = [page |-> page, pageSize |-> pageSize, given |-> filters,
                   filters |-> filters, queries |-> << >>]
  /\ categoriesScreen = NoCategoriesScreen
  /\ productsScreen = NoProductsScreen

\* getProducts runs up to its request with the caller's filters object as
\* the previous call left it.
Compile ==
  /\ Len(compiler.queries) < MaxBuilds
  /\ LET built == CompileQuery(compiler.page, compiler.pageSize, compiler.filters)
     IN compiler' = [compiler EXCEPT
          !.filters = built.filters,
          !.queries = Append(@, built.searchCriteria)]
  /\ UNCHANGED <<authVars, bulkVars, listCall, categoriesScreen, productsScreen>>

(***************************************************************************)
(* CategoriesScreen                                                        *)
(***************************************************************************)
InitCategories ==
  /\ user = MkUser("admin", StoredToken)
  /\ isAuthenticated = TRUE
  /\ storage = JSONStringify(user)
  /\ storageQ = << >>
  /\ validTokens = {StoredToken}
  /\ calls = [c \in CallIds |-> IdleCall]
  /\ login = [pc |-> "idle", username |-> "", status |-> 0, token |-> 0,
              result |-> "none"]
  /\ logins = 0
  /\ emits = 0
  /\ removals = [event |-> 0, explicit |-> 0]
  /\ navigations = [event |-> 0, explicit |-> 0]
  /\ route = "app"
  /\ products = [s \in Skus |-> NoProduct]
  /\ selectedProducts = << >>
  /\ isSelectionMode = FALSE
  /\ loading = FALSE
  /\ alert = "none"
  /\ bulk = IdleBulk
  /\ reqLog = << >>
  /\ deleted = {}
  /\ fetchPending = 0
  /\ listCall = IdleList
  /\ compiler = IdleCompiler
  /\ categoriesScreen = MountedCategoriesScreen
  /\ productsScreen = NoProductsScreen

\* The api.getCategories of fetchCategories() settles: on success the tree,
\* the page count and the total are replaced; on failure an alert is shown.
\* `finally` clears the loading flag.
FetchCategoriesSettle ==
  /\ categoriesScreen.loading
  /\ \/ \E tree \in Trees, total \in CategoryTotals :
          LET response == ListResult("getCategories",
                                     categoriesScreen.currentPage, 20, total)
          IN categoriesScreen' = [categoriesScreen EXCEPT
               !.categories = tree,
               !.totalPages = response.total_pages,
               !.totalCount = response.total_count,
               !.loading = FALSE]
     \/ categoriesScreen' = [categoriesScreen EXCEPT
          !.alert = "Error", !.loading = FALSE]
  /\ UNCHANGED <<authVars, bulkVars, listCall, compiler, productsScreen>>

\* onChangeText of the search input: setSearchQuery(text).  The input is
\* rendered only while the screen is not loading.
SetSearchQuery(text) ==
  /\ ~categoriesScreen.loading
  /\ categoriesScreen' = [categoriesScreen EXCEPT !.searchQuery = text]
  /\ UNCHANGED <<authVars, bulkVars, listCall, compiler, productsScreen>>

\* The categories drawn: the filtered entries and, under expanded items,
\* their children.
Rendered ==
  UNION {RenderedUnder(categoriesScreen.categories, cat,
                       categoriesScreen.expandedCategories) :
           cat \in FilteredCategories(categoriesScreen.categories,
                                      categoriesScreen.searchQuery)}

\* A drawn category with children is pressed: toggleCategory(item.id).
ToggleCategory(categoryId) ==
  /\ ~categoriesScreen.loading
  /\ categoryId \in Rendered
  /\ ChildrenData(categoriesScreen.categories, categoryId) # {}
  /\ categoriesScreen' = [categoriesScreen EXCEPT
       !.expandedCategories =
          IF categoryId \in @ THEN @ \ {categoryId} ELSE @ \cup {categoryId}]
  /\ UNCHANGED <<authVars, bulkVars, listCall, compiler, productsScreen>>

(***************************************************************************)
(* ProductsScreen paging                                                   *)
(***************************************************************************)
InitPaging ==
  /\ user = MkUser("admin", StoredToken)
  /\ isAuthenticated = TRUE
  /\ storage = JSONStringify(user)
  /\ storageQ = << >>
  /\ validTokens = {StoredToken}
  /\ calls = [c \in CallIds |-> IdleCall]
  /\ login = [pc |-> "idle", username |-> "", status |-> 0, token |-> 0,
              result |-> "none"]
  /\ logins = 0
  /\ emits = 0
  /\ removals = [event |-> 0, explicit |-> 0]
  /\ navigations = [event |-> 0, explicit |-> 0]
  /\ route = "app"
  /\ products = [s \in Skus |-> NoProduct]
  /\ selectedProducts = << >>
  /\ isSelectionMode = FALSE
  /\ loading = TRUE
  /\ alert = "none"
  /\ bulk = IdleBulk
  /\ reqLog = << >>
  /\ deleted = {}
  /\ fetchPending = 3
  /\ listCall = IdleList
  /\ compiler = IdleCompiler
  /\ categoriesScreen = NoCategoriesScreen
  /\ productsScreen = MountedProductsScreen

\* A handler ends with the screen's state set to (page, status, search).
\* `direct` tells whether the handler itself called fetchProducts(), whose
\* closure still holds the page of the render the handler belongs to; then
\* the effects of the next render run: the one on [currentPage] and the one
\* on [filterStatus] each call fetchProducts() when their value changed, and
\* the one on [searchQuery] does when the text changed and is empty, after
\* setCurrentPage(1).  All of them read the new state, except that the
\* search effect's closure holds the page from before its setCurrentPage(1).
Render(page, status, search, direct) ==
  LET ps == productsScreen
      textCleared == search # ps.searchQuery /\ search = << >>
      finalPage == IF textCleared THEN 1 ELSE page
      params ==
        (IF direct THEN <<[page |-> ps.currentPage, status |-> ps.filterStatus,
                           search |-> ps.searchQuery]>> ELSE << >>)
        \o (IF page # ps.currentPage
              THEN <<[page |-> page, status |-> status, search |-> search]>>
              ELSE << >>)
        \o (IF status # ps.filterStatus
              THEN <<[page |-> page, status |-> status, search |-> search]>>
              ELSE << >>)
        \o (IF textCleared
              THEN <<[page |-> page, status |-> status, search |-> search]>>
              ELSE << >>)
        \o (IF textCleared /\ page # 1
              THEN <<[page |-> 1, status |-> status, search |-> search]>>
              ELSE << >>)
      started == [k \in 1..Len(params) |->
                    FetchOf(ps.issued + k, params[k].page, params[k].status,
                            params[k].search)]
  IN /\ ps.issued + Len(params) <= MaxFetches
     /\ productsScreen' = [ps EXCEPT
          !.currentPage = finalPage, !.filterStatus = status,
          !.searchQuery = search, !.fetches = @ \o started,
          !.issued = @ + Len(params)]
     /\ loading' = (loading \/ Len(params) > 0)
     /\ fetchPending' = fetchPending + Len(params)
     /\ UNCHANGED <<authVars, listCall, compiler, categoriesScreen, products,
                    selectedProducts, isSelectionMode, alert, bulk, reqLog,
                    deleted>>

\* The pagination buttons: first, previous, next, last, and the page list.
FirstPage ==
  /\ productsScreen.currentPage > 1
  /\ Render(1, productsScreen.filterStatus, productsScreen.searchQuery, FALSE)

PrevPage ==
  /\ productsScreen.currentPage > 1
  /\ Render(productsScreen.currentPage - 1, productsScreen.filterStatus,
            productsScreen.searchQuery, FALSE)

NextPage ==
  /\ productsScreen.currentPage < productsScreen.totalPages
  /\ Render(productsScreen.currentPage + 1, productsScreen.filterStatus,
            productsScreen.searchQuery, FALSE)

LastPage ==
  /\ productsScreen.currentPage < productsScreen.totalPages
  /\ Render(productsScreen.totalPages, productsScreen.filterStatus,
            productsScreen.searchQuery, FALSE)

SelectPage(item) ==
  /\ item \in 1..productsScreen.totalPages
  /\ item # productsScreen.currentPage
  /\ Render(item, productsScreen.filterStatus, productsScreen.searchQuery, FALSE)

\* handleFilter(status): setCurrentPage(1); setFilterStatus(status).
HandleFilter(status) ==
  /\ status # productsScreen.filterStatus
  /\ Render(1, status, productsScreen.searchQuery, FALSE)

\* onChangeText of the search input: setSearchQuery(text).
ChangeSearchText(text) ==
  /\ text # productsScreen.searchQuery
  /\ Render(productsScreen.currentPage, productsScreen.filterStatus, text, FALSE)

\* onSubmitEditing of the search input: setCurrentPage(1); fetchProducts().
SubmitSearch ==
  Render(1, productsScreen.filterStatus, productsScreen.searchQuery, TRUE)

\* FetchProductsSettle with a generation stamp: a response is used only
\* when no fetch was started after its own.
FetchProductsSettleLatestOnly ==
  /\ \E i \in DOMAIN productsScreen.fetches, total \in ProductTotals :
       LET ps == productsScreen
           f == ps.fetches[i]
           response == ListResult("getProducts", f.page, 20, total)
       IN productsScreen' =
            IF f.id = ps.issued
              THEN [ps EXCEPT !.fetches = RemoveAt(@, i), !.shown = f,
                              !.totalPages = response.total_pages,
                              !.arrived = f,
                              !.arrivedPages = response.total_pages,
                              !.failed = FALSE]
              ELSE [ps EXCEPT !.fetches = RemoveAt(@, i), !.arrived = f,
                              !.arrivedPages = response.total_pages,
                              !.failed = FALSE]
  /\ loading' = FALSE
  /\ fetchPending' = fetchPending - 1
  /\ UNCHANGED <<authVars, listCall, compiler, categoriesScreen, products,
                 selectedProducts, isSelectionMode, alert, bulk, reqLog,
                 deleted>>

\* The api.getProducts of some pending fetchProducts() settles, in any
\* order: on success its items and page count are set, on failure an alert
\* is shown; `finally` clears the loading flag.  `shown` names the fetch
\* whose items are displayed; `arrived` and `arrivedPages` record the last
\* response.
FetchProductsSettle ==
  /\ \E i \in DOMAIN productsScreen.fetches :
       LET ps == productsScreen
           f == ps.fetches[i]
       IN \/ /\ \E total \in ProductTotals :
                   LET response == ListResult("getProducts", f.page, 20, total)
                   IN productsScreen' = [ps EXCEPT
                        !.fetches = RemoveAt(@, i), !.shown = f,
                        !.totalPages = response.total_pages,
                        !.arrived = f,
                        !.arrivedPages = response.total_pages,
                        !.failed = FALSE]
             /\ UNCHANGED alert
          \/ /\ productsScreen' = [ps EXCEPT
                  !.fetches = RemoveAt(@, i), !.arrived = f, !.failed = TRUE]
             /\ alert' = "Error"
  /\ loading' = FALSE
  /\ fetchPending' = fetchPending - 1
  /\ UNCHANGED <<authVars, listCall, compiler, categoriesScreen, products,
                 selectedProducts, isSelectionMode, bulk, reqLog, deleted>>

(***************************************************************************)
(* Specifications                                                          *)
(***************************************************************************)
\* Gateway calls against the session: no login.
NextGateway ==
  \/ \E c \in CallIds, op \in Ops : IssueCall(c, op)
  \/ \E c \in CallIds : IssueDeleteCategory(c)
  \/ \E c \in CallIds : ServerProcess(c)
  \/ \E c \in CallIds : Deliver(c)
  \/ \E t \in Tokens : Expire(t)
  \/ StorageStep

SpecGateway == InitAuth /\ [][NextGateway]_vars

\* The session lifecycle: restore, login, logout and 401-triggered logout.
NextSession ==
  \/ \E c \in SessionCallIds : IssueCall(c, "getProductDetails")
  \/ \E c \in SessionCallIds : ServerProcess(c)
  \/ \E c \in SessionCallIds : Deliver(c)
  \/ \E t \in Tokens : Expire(t)
  \/ \E u \in Usernames : Login(u)
  \/ LoginServer
  \/ LoginDeliver
  \/ ExplicitLogout
  \/ StorageStep

SpecSession == InitSession /\ [][NextSession]_vars

\* The bulk delete of the products screen.
NextBulk ==
  \/ StartBulk
  \/ \E st \in Statuses : BulkSettle(st)
  \/ \E ok \in BOOLEAN : FetchSettle(ok)
  \/ \E t \in Tokens : Expire(t)
  \/ StorageStep

SpecBulk == InitBulk /\ [][NextBulk]_vars

\* One call of a list operation against the session.
NextList ==
  \/ ListRequest
  \/ ListSettle
  \/ \E t \in Tokens : Expire(t)
  \/ StorageStep

SpecList == InitAuth /\ [][NextList]_vars

\* getProducts' query construction, called again with the same arguments.
NextCompile == Compile

SpecCompile == InitCompile /\ [][NextCompile]_vars

\* The categories screen: load, search, expand.
NextCategories ==
  \/ FetchCategoriesSettle
  \/ \E text \in Queries : SetSearchQuery(text)
  \/ \E categoryId \in 1..MaxNodes : ToggleCategory(categoryId)

SpecCategories == InitCategories /\ [][NextCategories]_vars

\* The products screen: paging, filter and search against slow responses.
NextPaging ==
  \/ FirstPage
  \/ PrevPage
  \/ NextPage
  \/ LastPage
  \/ \E item \in PageItems : SelectPage(item)
  \/ \E status \in StatusInputs : HandleFilter(status)
  \/ \E text \in SearchTexts : ChangeSearchText(text)
  \/ SubmitSearch
  \/ FetchProductsSettle

SpecPaging == InitPaging /\ [][NextPaging]_vars

\* Pending requests and storage operations eventually settle.
FairSpecGateway ==
  /\ SpecGateway
  /\ WF_vars(StorageStep)
  /\ \A c \in CallIds : WF_vars(ServerProcess(c)) /\ WF_vars(Deliver(c))

(***************************************************************************)
(* Properties                                                              *)
(***************************************************************************)
Done(c) == calls[c].pc = "done"

\* Calls i and j were in flight at the same time.
Overlapped(i, j) == i \in calls[j].overlap \/ j \in calls[i].overlap

\* The session is destroyed: nothing persisted, nothing in memory.
LoggedOut == user = NullUser /\ ~isAuthenticated /\ storage = NoItem

\* A pending handleLogout resumes in this step.
LogoutSettles ==
  /\ storageQ # << >>
  /\ Head(storageQ).op = "remove"
  /\ storageQ' = Tail(storageQ)

\* C1 (invalidation collapse): when two gateway calls that were in flight at
\* the same time have both received HTTP 401, exactly one 'logout' broadcast
\* has been emitted and the teardown has been started exactly once and has
\* navigated at most once.
C1_InvalidationCollapse ==
  \A i, j \in CallIds :
    (i # j /\ Overlapped(i, j) /\ Done(i) /\ Done(j)
       /\ calls[i].status = 401 /\ calls[j].status = 401)
    => (emits = 1 /\ removals.event = 1 /\ navigations.event <= 1)

ProductRequested(sku) ==
  \E n \in DOMAIN reqLog : reqLog[n].kind = "product" /\ reqLog[n].sku = sku

ImageRequested(sku, image) ==
  \E n \in DOMAIN reqLog :
    reqLog[n].kind = "image" /\ reqLog[n].sku = sku /\ reqLog[n].image = image

FailedRequests == {n \in DOMAIN reqLog : reqLog[n].status \notin {0, 200}}

ItemSet == {bulk.items[k] : k \in DOMAIN bulk.items}

\* C2 (bulk failure isolation): when a bulk delete has ended, every selected
\* item has had its product delete attempted, whatever failed before it; and
\* when the only failure is one item's product delete, all other selected
\* products are deleted.
C2_BulkFailureIsolation ==
  bulk.pc = "done" =>
    /\ \A sku \in ItemSet : ProductRequested(sku)
    /\ \A n \in DOMAIN reqLog :
         (FailedRequests = {n} /\ reqLog[n].kind = "product")
           => deleted = ItemSet \ {reqLog[n].sku}

\* C3 (sub-step failure does not abort the item): when a bulk delete has
\* ended, every failed deleteProductImage of a product was followed by the
\* remaining deleteProductImage calls of that product and by its
\* deleteProduct.
C3_SubStepFailureDoesNotAbortItem ==
  bulk.pc = "done" =>
    \A n \in DOMAIN reqLog :
      (reqLog[n].kind = "image" /\ reqLog[n].status # 200)
        => /\ \A k \in DOMAIN bulk.list[reqLog[n].sku].media :
                ImageRequested(reqLog[n].sku, bulk.list[reqLog[n].sku].media[k])
           /\ ProductRequested(reqLog[n].sku)

\* C4 (primary after sub-steps): every deleteProduct(sku) in the request log
\* is preceded, for each media entry the handler knows for that sku, by a
\* deleteProductImage request for that entry that has already completed.
C4_PrimaryAfterSubSteps ==
  \A n \in DOMAIN reqLog :
    reqLog[n].kind = "product" =>
      \A k \in DOMAIN bulk.list[reqLog[n].sku].media :
        \E j \in 1..(n - 1) :
          /\ reqLog[j].kind = "image"
          /\ reqLog[j].sku = reqLog[n].sku
          /\ reqLog[j].image = bulk.list[reqLog[n].sku].media[k]
          /\ reqLog[j].status # 0

\* A product with at least two media entries has had both deleted and its
\* deleteProduct issued, while a later item is still to come.
C4_Witness ==
  \E n \in DOMAIN reqLog :
    /\ reqLog[n].kind = "product"
    /\ Len(bulk.list[reqLog[n].sku].media) >= 2
    /\ n >= 3
    /\ reqLog[n].status = 200
    /\ Len(bulk.items) >= 2

\* C5 (bulk failures are data): a bulk delete always runs to the end of the
\* item list and no failure leaves the loop as a thrown error; in particular
\* for two items whose only failure is one media delete of the first, both
\* product deletes are attempted and succeed.
C5_BulkFailuresAreData ==
  bulk.pc = "done" =>
    /\ ~bulk.thrown
    /\ bulk.i > Len(bulk.items)
    /\ (Len(bulk.items) = 2 /\ Cardinality(FailedRequests) = 1
          /\ (\A n \in FailedRequests :
                reqLog[n].kind = "image" /\ reqLog[n].sku = bulk.items[1]))
         => deleted = ItemSet

\* C6 (broadcast before the 401 failure): every gateway call that has ended
\* after receiving HTTP 401 has emitted the 'logout' broadcast and failed
\* with the session-expired error.
C6_BroadcastBefore401Failure ==
  \A c \in CallIds :
    (Done(c) /\ calls[c].status = 401)
      => (calls[c].broadcast /\ calls[c].outcome = "SessionExpired")

\* C7 (pending calls observe the expiry): once a call has received HTTP 401,
\* a call that was issued with the same token and was in flight together
\* with it, and is still pending, does not complete successfully.
C7_PendingCallsObserveExpiry ==
  [][\A i, j \in CallIds :
       (i # j /\ Done(j) /\ calls[j].status = 401
          /\ InFlight(i) /\ Overlapped(i, j)
          /\ calls[i].token = calls[j].token
          /\ calls'[i].pc = "done")
       => calls'[i].outcome # "ok"]_vars

\* C8 (session destruction on expiry): after a gateway call has observed
\* HTTP 401 and raised the broadcast, the session is eventually destroyed
\* (no user, not authenticated, no persisted record), whatever the outcome
\* of the storage removal.
C8_SessionDestroyedOnExpiry ==
  (\E c \in CallIds : Done(c) /\ calls[c].status = 401 /\ calls[c].broadcast)
    ~> LoggedOut

\* C9 (logout is idempotent): on a session that is already unauthenticated,
\* with nothing persisted, a logout has no side effect: with no storage
\* operation pending no removal is issued, and a logout that resumes then
\* does not navigate.
C9_LogoutIdempotent ==
  [][LoggedOut =>
       /\ (storageQ = << >> => removals' = removals)
       /\ (LogoutSettles => (navigations' = navigations /\ route' = route))]_vars

\* C10 (logout clears the session): in the step that completes a logout, the
\* persisted record is absent, the user is null and isAuthenticated is false.
C10_LogoutClearsSession ==
  [][LogoutSettles =>
       (storage' = NoItem /\ user' = NullUser /\ ~isAuthenticated')]_vars

\* A step of a login, and the steps that end one.
LoginSucceeds == login.pc = "persisting" /\ login'.pc = "idle" /\ login'.result = "ok"

LoginFails == login.pc # "idle" /\ login'.pc = "idle" /\ login'.result # "ok"

LoginFailureCauses ==
  {ApiLoginError(st) : st \in {200, 401, NoResponse}} \cup {StorageError}

LoginSettles ==
  /\ storageQ # << >>
  /\ Head(storageQ).op = "set"
  /\ storageQ' = Tail(storageQ)

\* C12 (a successful login establishes the session): in the step that
\* completes a login successfully the session becomes authenticated with
\* the username given and the token the platform returned, and the record
\* under 'user' holds that username and token; and no step of handleLogin
\* changes the in-memory session without that record being in place.
C12_LoginEstablishesSession ==
  [][/\ LoginSucceeds =>
          /\ isAuthenticated'
          /\ user' = MkUser(login.username, login.token)
          /\ login.token # 0
          /\ storage'.json = "object"
          /\ storage'.username = login.username
          /\ storage'.token = login.token
     /\ (LoginSettles /\ (user' # user \/ isAuthenticated' # isAuthenticated))
          => (storage' # NoItem /\ ~JSONParseThrows(storage')
                /\ JSONParse(storage') = user')]_vars

\* A login as "clerk" has succeeded over a session restored for "admin".
C12_Witness ==
  /\ login.result = "ok"
  /\ isAuthenticated
  /\ user = MkUser("clerk", login.token)
  /\ storage = JSONStringify(user)
  /\ login.token # StoredToken

\* The continuation of checkAuthState's getItem runs in this step.
RestoreSettles ==
  /\ storageQ # << >>
  /\ Head(storageQ).op = "get"
  /\ storageQ' = Tail(storageQ)

\* A record as handleLogin writes it: a username and a token.
WellFormed(s) == s.json = "object" /\ s.token # 0

\* C13 (restore): the step that completes checkAuthState issues no request;
\* with a well-formed record under 'user' the session becomes authenticated
\* with exactly that username and token (or stays as it was when the read
\* failed); with no record or a malformed one it stays unauthenticated.
C13_RestoreFromStorage ==
  [][RestoreSettles =>
       /\ calls' = calls
       /\ login' = login
       /\ WellFormed(storage) =>
            \/ (isAuthenticated' /\ user' = MkUser(storage.username, storage.token))
            \/ (~isAuthenticated' /\ user' = NullUser)
       /\ ~WellFormed(storage) => (~isAuthenticated' /\ user' = NullUser)]_vars

\* C14 (no session, no request): a gateway call made while there is no user
\* or token ends at once with SessionMissing, without a request.
C14_NoSessionNoRequest ==
  [][\A c \in CallIds :
       (calls[c].pc = "idle" /\ calls'[c].pc # "idle" /\ TokenOf(user) = 0)
         => (calls'[c].pc = "done" /\ calls'[c].outcome = "SessionMissing")]_vars

\* C15 (remote rejection): every gateway call that has ended after a 4xx/5xx
\* response other than 401 has failed with the platform's message or the
\* operation's fallback text, not with the transport library's error.
C15_RemoteRejectedMessage ==
  \A c \in CallIds :
    (Done(c) /\ calls[c].status \notin {0, 200, 401, NoResponse})
      => calls[c].outcome = "RemoteRejected"

\* C16 (unreachable): every gateway call that has ended because no response
\* arrived has failed with the 'No response from server' error and has not
\* emitted the 'logout' broadcast.
C16_UnreachableError ==
  \A c \in CallIds :
    (Done(c) /\ calls[c].status = NoResponse)
      => (calls[c].outcome = "Unreachable" /\ ~calls[c].broadcast)

\* A list operation has returned a result for a 2xx response.
Listed == listCall.pc = "done" /\ listCall.outcome = "ok"

\* n is total / pageSize rounded up: the least n with n * pageSize >= total.
IsCeiling(n, total, pageSize) ==
  /\ n * pageSize >= total
  /\ (n - 1) * pageSize < total

\* C17 (page count): a list operation's result has current_page equal to the
\* requested page and, when the platform reported total_count, total_pages
\* equal to total_count / pageSize rounded up; 45 items in pages of 20 are 3
\* pages.
C17_TotalPagesIsCeiling ==
  Listed =>
    /\ listCall.result.current_page = listCall.page
    /\ listCall.total # Undefined =>
         IsCeiling(listCall.result.total_pages, listCall.total, listCall.pageSize)
    /\ (listCall.total = 45 /\ listCall.pageSize = 20) =>
         listCall.result.total_pages = 3

C17_Witness ==
  /\ Listed
  /\ listCall.op = "getOrders"
  /\ listCall.page = 2
  /\ listCall.total = 45
  /\ listCall.pageSize = 20
  /\ listCall.result.total_pages = 3

\* C18 (at least one page): the total_pages of every list result is at
\* least 1, also for total_count 0 and for a response without total_count.
C18_TotalPagesAtLeastOne ==
  Listed => listCall.result.total_pages >= 1

\* The filter groups of the request, and those holding a predicate of a
\* given condition type.
Groups == listCall.criteria.filterGroups

GroupsWith(conditionType) ==
  {g \in DOMAIN Groups :
     \E k \in DOMAIN Groups[g] : Groups[g][k].conditionType = conditionType}

ProductsQueryBuilt == listCall.pc # "idle" /\ listCall.op = "getProducts"

\* C19 (distinct groups): the query of getProducts has at most one group
\* with an 'eq' predicate and at most one with 'like' predicates; a status
\* yields a group that is exactly one eq predicate on 'status'; with both a
\* status and a search, the status group is the first group, the like
\* predicates are all in the second, and neither holds the other's kind.
C19_FilterGroupsDistinct ==
  ProductsQueryBuilt =>
    /\ Cardinality(GroupsWith("eq")) <= 1
    /\ Cardinality(GroupsWith("like")) <= 1
    /\ StatusGiven(listCall.filters) =>
         /\ GroupsWith("eq") = {1}
         /\ Groups[1] = << [field |-> "status",
                            value |-> [num |-> listCall.filters.status],
                            conditionType |-> "eq"] >>
    /\ (StatusGiven(listCall.filters) /\ SearchGiven(listCall.filters)) =>
         /\ Len(Groups) = 2
         /\ GroupsWith("like") = {2}
         /\ \A k \in DOMAIN Groups[2] : Groups[2][k].conditionType = "like"

C19_Witness ==
  /\ ProductsQueryBuilt
  /\ listCall.filters.given
  /\ listCall.filters.status = 2
  /\ SearchGiven(listCall.filters)
  /\ Len(Groups) = 2
  /\ Len(Groups[1]) = 1
  /\ Len(Groups[2]) = 4

\* v is '%' + s + '%'.
IsWrapped(v, s) ==
  /\ Len(v) = Len(s) + 2
  /\ v[1] = "%"
  /\ v[Len(v)] = "%"
  /\ \A k \in 1..Len(s) : v[k + 1] = s[k]

\* C20 (search predicates): with a non-empty search string s the query has a
\* group holding exactly one 'like' predicate for each of name, sku,
\* description and eancode, each with value '%' + s + '%', and no other like
\* predicate; without a search string the query has no like predicate and no
\* empty group.
C20_SearchPredicates ==
  ProductsQueryBuilt =>
    /\ SearchGiven(listCall.filters) =>
         \E g \in DOMAIN Groups :
           /\ GroupsWith("like") = {g}
           /\ Len(Groups[g]) = 4
           /\ \A field \in {"name", "sku", "description", "eancode"} :
                \E k \in DOMAIN Groups[g] :
                  /\ Groups[g][k].field = field
                  /\ Groups[g][k].conditionType = "like"
                  /\ IsWrapped(Groups[g][k].value.str, listCall.filters.search)
    /\ ~SearchGiven(listCall.filters) =>
         /\ GroupsWith("like") = {}
         /\ \A g \in DOMAIN Groups : Groups[g] # << >>

C20_Witness ==
  /\ ProductsQueryBuilt
  /\ listCall.filters.given
  /\ listCall.filters.status = NoStatus
  /\ listCall.filters.hasSearch
  /\ listCall.filters.search = <<"a", "%">>
  /\ Len(Groups) = 1
  /\ Groups[1][4].field = "eancode"
  /\ Groups[1][4].value.str = <<"%", "a", "%", "%">>

\* The k-th delete request of the bulk delete has not settled.
Pending(k) == reqLog[k].status = 0

\* C25 (sequential steps): at most one delete request of the bulk delete is
\* in flight, it is the one issued last, and every request issued before
\* another one had completed successfully when the next was issued.
C25_BulkStepsSequential ==
  /\ \A k \in DOMAIN reqLog : Pending(k) => k = Len(reqLog)
  /\ \A k \in DOMAIN reqLog : k < Len(reqLog) => reqLog[k].status = 200
  /\ (bulk.pc = "await") = (reqLog # << >> /\ Pending(Len(reqLog)))

C25_Witness ==
  /\ bulk.pc = "await"
  /\ Len(reqLog) = 3
  /\ reqLog[1].kind = "image"
  /\ reqLog[1].status = 200
  /\ reqLog[2].status = 200
  /\ reqLog[3].status = 0

\* What handleAuthError can be given: every failure of a request.
ErrorKinds == (Statuses \ {200}) \cup {RequestNotSent}

\* C26 (handleAuthError always throws): handleAuthError throws for every
\* error; a gateway call that went through it has failed with the
\* session-expired error after a broadcast when the status was 401, and with
\* the original error and no broadcast otherwise, never with an error built
\* by the statements after handleAuthError(error).
C26_HandleAuthErrorAlwaysThrows ==
  /\ \A st \in ErrorKinds :
       /\ HandleAuthError(st).thrown # "none"
       /\ HandleAuthError(st).emit = (st = 401)
  /\ \A c \in CallIds :
       (Done(c) /\ calls[c].op # "deleteCategory" /\ calls[c].status # 200) =>
         /\ calls[c].outcome =
              (IF calls[c].status = 401 THEN "SessionExpired" ELSE "AxiosError")
         /\ calls[c].broadcast = (calls[c].status = 401)
         /\ calls[c].outcome \notin {CatchMessage(st) : st \in ErrorKinds}

C26_Witness ==
  \E c \in CallIds :
    /\ Done(c)
    /\ calls[c].op = "getProductDetails"
    /\ calls[c].status = NoResponse
    /\ calls[c].outcome = "AxiosError"
    /\ ~calls[c].broadcast

\* No session operation is pending: no storage operation awaits its
\* completion and no login is under way.
SessionQuiet == storageQ = << >> /\ login.pc = "idle"

\* C27 (session consistency): once no session operation is pending, a value
\* is persisted under 'user' if and only if the session is authenticated,
\* and then the persisted record and the in-memory user hold the same
\* username and token.
C27_SessionConsistent ==
  SessionQuiet =>
    /\ (storage # NoItem) = isAuthenticated
    /\ isAuthenticated =>
         /\ WellFormed(storage)
         /\ user = MkUser(storage.username, storage.token)

\* C28 (authenticated implies user): isAuthenticated is true only while user
\* is a record with a username and a token.
C28_AuthenticatedHasUser ==
  isAuthenticated =>
    /\ user.kind = "user"
    /\ user.username \in Usernames
    /\ user.token # 0

\* A request started by the products screen has not completed.
ScreenBusy == fetchPending > 0 \/ bulk.pc = "await"

\* C30 (loading flag): the products screen's loading flag is true whenever a
\* list fetch or a bulk delete it started is still in flight.
C30_LoadingWhileBusy == ScreenBusy => loading

Tree == categoriesScreen.categories

Filtered == FilteredCategories(Tree, categoriesScreen.searchQuery)

\* a is an ancestor of c: a is reached from c along parents.
RECURSIVE IsAncestor(_, _)
IsAncestor(a, c) ==
  /\ Tree.parent[c] # 0
  /\ (Tree.parent[c] = a \/ IsAncestor(a, Tree.parent[c]))

\* The name of cat contains the search text, compared without case: at some
\* offset every character of the text equals the name's up to case.
NameMatches(cat) ==
  LET n == Tree.name[cat]
      q == categoriesScreen.searchQuery
  IN \E off \in 0..(Len(n) - Len(q)) :
       \A k \in 1..Len(q) : LowerChar(n[off + k]) = LowerChar(q[k])

\* The retention predicate: the name matches, or a descendant's does.
Retained(cat) ==
  NameMatches(cat) \/ \E d \in CategoryIds(Tree) : IsAncestor(cat, d) /\ NameMatches(d)

\* The categories of the filtered result at any depth: the filtered entries
\* with everything below them.
ResultNodes ==
  Filtered \cup {c \in CategoryIds(Tree) : \E a \in Filtered : IsAncestor(a, c)}

\* C22 (filter predicate): matchesSearch holds of a category exactly when
\* its name contains the search text case-insensitively or a descendant's
\* at any depth does; the filter keeps exactly the entries for which it
\* holds; a category whose name matches is in the result together with all
\* its ancestors; a text matching no category gives an empty result.
C22_FilterPredicate ==
  /\ \A cat \in CategoryIds(Tree) :
       MatchesSearch(Tree, cat, ToLowerCase(categoriesScreen.searchQuery))
         = Retained(cat)
  /\ \A cat \in TopLevel(Tree) : (cat \in Filtered) = Retained(cat)
  /\ \A cat \in CategoryIds(Tree) :
       NameMatches(cat) =>
         /\ cat \in ResultNodes
         /\ \A a \in CategoryIds(Tree) : IsAncestor(a, cat) => a \in ResultNodes
  /\ (\A cat \in CategoryIds(Tree) : ~NameMatches(cat)) => Filtered = {}

\* Only a grandchild matches, through a difference of case.
C22_Witness ==
  /\ ~categoriesScreen.loading
  /\ categoriesScreen.searchQuery = <<"a", "B">>
  /\ Tree.parent = <<0, 1, 2>>
  /\ Tree.name = << <<"a">>, <<"B">>, <<"A", "b">> >>
  /\ Filtered = {1}
  /\ Rendered = {1, 2, 3}

\* C23 (restricted tree): every category of the filtered result, at any
\* depth, and so every category drawn, satisfies the retention predicate.
C23_ResultRestricted ==
  /\ \A cat \in ResultNodes : Retained(cat)
  /\ \A cat \in Rendered : Retained(cat)

\* C24 (stale response): the response that arrived last, when it succeeded,
\* is the one whose items and page count the products screen shows,
\* whichever fetch it belongs to and whatever was started after it.
C24_LastArrivalWins ==
  (productsScreen.arrived # NoFetch /\ ~productsScreen.failed) =>
    /\ productsScreen.shown = productsScreen.arrived
    /\ productsScreen.totalPages = productsScreen.arrivedPages

\* Everything has arrived, the response of the latest fetch before that of
\* an earlier one: the screen is on page 1 and shows the items of page 2.
C24_Witness ==
  /\ productsScreen.fetches = << >>
  /\ productsScreen.issued = MaxFetches
  /\ ~productsScreen.failed
  /\ productsScreen.arrived.id < productsScreen.issued
  /\ productsScreen.shown.page = 2
  /\ productsScreen.currentPage = 1

\* C29 (page in range): the page displayed by the products screen is at
\* least 1 and at most totalPages.
C29_PageInRange ==
  /\ 1 <= productsScreen.currentPage
  /\ productsScreen.currentPage <= productsScreen.totalPages

====
